---- MODULE Spec2Model ----
(***************************************************************************)
(* Model of the kube-grpc connection pool (src/src/main.go).               *)
(*                                                                         *)
(* Threads: the caller goroutines running Connect, the two goroutines      *)
(* started by poolManager (healthCheck and updatePool) and the goroutine   *)
(* healthCheck starts at its end (cleanConnections).  The directory (the   *)
(* cluster API) and the capability (NewGrpcClient, Ping) are environment:  *)
(* their results are drawn nondeterministically.                           *)
(*                                                                         *)
(* Every read and every write of the shared map, of a pool's counter and   *)
(* of a pool's slice is a step of its own: the code takes no lock, so the  *)
(* read and the write of "x = x + 1" and of "s = append(s, e)" interleave  *)
(* with the other goroutines.  Each such read or write is taken to be     *)
(* atomic and visible to every goroutine at once; the two outcomes of the  *)
(* races that go beyond interleaving (the runtime's fatal error on a       *)
(* concurrent map access, a torn read of a slice header) are actions of    *)
(* their own.  A panic or log.Fatal in any goroutine ends the process: it  *)
(* is recorded in crashed and disables every action.                       *)
(***************************************************************************)
EXTENDS Integers, Sequences, FiniteSets, TLC

\* ------------------------------------------------------------------ bounds
MaxCalls == 2          \* Connect calls issued over a run
ChurnCalls == 1        \* Connect calls over a run in which the directory changes
MaxDirChanges == 1     \* changes of the directory over a run

Callers == {"c1", "c2"}
Caps == {"f1", "f2"}
\* the capability each caller passes to Connect
CapOf == [c \in Callers |-> IF c = "c1" THEN "f1" ELSE "f2"]
Namespaces == {"ns"}
\* the pod addresses: 1 and 4 are healthy, the dial to 2 fails (and
\* NewGrpcClient makes a client of the connection all the same),
\* NewGrpcClient fails for 3
Addrs == {1, 2, 3, 4}
DialOk(ip) == ip # 2
ClientOk(ip) == ip # 3
\* the services registered in the cluster, in the order the API lists them
ClusterSvcs == << <<"a", "b">>, <<"c">> >>
\* the service names callers ask for: the empty name (which every service
\* name contains), two that match a service and one that matches none
ReqNames == { <<>>, <<"a">>, <<"c">>, <<"z">> }
InitPods == <<{1}, {3}>>

\* ------------------------------------------------------------------ state
VARIABLES
  connectionCache,  \* serviceName -> pool id, NoPool when absent
  heap,             \* the connection objects allocated so far, by pool id
  dirUp,            \* the cluster API answers List calls
  podsOf,           \* cluster service index -> addresses of its pods
  dirChanges,       \* changes the directory may still undergo
  pc,               \* thread -> position in the code
  loc,              \* thread -> locals of Connect / updateConnectionPool
  rng,              \* "hc"/"up" -> progress of the range over connectionCache
  ret,              \* caller -> what its last Connect call returned
  calls,            \* Connect calls the callers may still issue
  crashed,          \* whether, why and in which goroutine the process ended
  hcDirty,          \* identity of the connection healthCheck is blocked sending
  probed,           \* history: identities of the connections pinged so far
  creations,        \* history: serviceName -> pools created and registered
  everFailed,       \* history: addresses whose client construction failed
  lateListed,       \* history: addresses the directory started listing later
  hcLoc             \* healthCheck: the pool and the slice its inner loop
                    \* ranges over, and the index of the next entry

vars == << connectionCache, heap, dirUp, podsOf, dirChanges, pc, loc,
           rng, ret, calls, crashed, hcDirty, probed, creations, everFailed,
           lateListed, hcLoc >>

NoPool == 0
NoCrash == [why |-> "no", by |-> "none"]
Crash(why, t) == [why |-> why, by |-> t]
NoConn == <<>>
Background == {"hc", "up", "cc"}
PopThreads == Callers \cup {"up"}
Threads == Callers \cup Background

NoLoc == [svc |-> <<>>, ns |-> "", f |-> "", pool |-> NoPool, pods |-> <<>>,
          gc |-> NoConn, tmpN |-> 0, tmpSlice |-> <<>>, idx |-> 0,
          creator |-> FALSE, listed |-> {}, failed |-> {}]

\* what a Connect call returned: the value, the error, and (history) the
\* service asked for and the number of entries its registered pool held then
\* healthCheck outside its inner loop
NoHcLoc == [pool |-> NoPool, slice |-> <<>>, idx |-> 0]

NoResult == [val |-> [kind |-> "none"], err |-> "none", svc |-> <<>>, size |-> 0]

\* ------------------------------------------------------- helper operators
\* strings.Contains on names represented as sequences of characters
Contains(name, sub) ==
  \E i \in 0..(Len(name) - Len(sub)) : SubSeq(name, i + 1, i + Len(sub)) = sub

\* getService: index of the first listed service whose name contains
\* serviceName, 0 when there is none (the function returns nil and an error)
getService(serviceName) ==
  LET hits == {i \in 1..Len(ClusterSvcs) : Contains(ClusterSvcs[i], serviceName)}
  IN IF hits = {} THEN 0
     ELSE CHOOSE i \in hits : \A j \in hits : i <= j

\* the list the API returns for a set of pods: the API lists in the order of
\* its keys, for which the order of the addresses stands
RECURSIVE Listing(_)
Listing(S) ==
  IF S = {} THEN <<>>
  ELSE LET a == CHOOSE x \in S : \A y \in S : x <= y
       IN <<a>> \o Listing(S \ {a})

Registered == {k \in ReqNames : connectionCache[k] # NoPool}

IPs(slice) == {slice[i].connectionIP : i \in 1..Len(slice)}
Ids(slice) == {slice[i].id : i \in 1..Len(slice)}

Running == crashed = NoCrash

\* ------------------------------------------------------------------- Init
\* The state after init(): the registry is empty and poolManager has started
\* healthCheck and updatePool, both asleep.  A background goroutine that
\* wakes while the registry is still empty ranges over nothing and ends
\* (healthCheck after one second, updatePool after a minute), so the states
\* in which one of them has ended that way are states of the program too.
\* nCalls and nChanges are what the environment may still do.
Start(nCalls, nChanges, hcEnded, upEnded) ==
  /\ connectionCache = [k \in ReqNames |-> NoPool]
  /\ heap = <<>>
  /\ dirUp = TRUE
  /\ podsOf = InitPods
  /\ dirChanges = nChanges
  /\ pc = [t \in Threads |->
             IF t \in Callers THEN "idle"
             ELSE IF t = "hc" THEN (IF hcEnded THEN "done" ELSE "sleep")
             ELSE IF t = "cc" THEN (IF hcEnded THEN "done" ELSE "unstarted")
             ELSE (IF upEnded THEN "done" ELSE "sleep")]
  /\ loc = [t \in PopThreads |-> NoLoc]
  /\ rng = [t \in {"hc", "up"} |-> [start |-> {}, visited |-> {}]]
  /\ ret = [c \in Callers |-> NoResult]
  /\ calls = nCalls
  /\ crashed = NoCrash
  /\ hcDirty = NoConn
  /\ probed = {}
  /\ creations = [k \in ReqNames |-> 0]
  /\ everFailed = {}
  /\ lateListed = {}
  /\ hcLoc = NoHcLoc

\* one Connect call and a changing directory against both background
\* goroutines; several Connect calls against one background goroutine
Init ==
  \/ Start(ChurnCalls, MaxDirChanges, FALSE, FALSE)
  \/ Start(MaxCalls, 0, TRUE, FALSE)
  \/ Start(MaxCalls, 0, FALSE, TRUE)

\* ------------------------------------------------------------ environment
\* the replica set of a cluster service changes (scale up, scale down)
DirChange ==
  /\ Running
  /\ dirChanges > 0
  /\ \E i \in 1..Len(ClusterSvcs), a \in Addrs :
       /\ \A j \in 1..Len(ClusterSvcs) : j # i => a \notin podsOf[j]
       /\ IF a \in podsOf[i]
            THEN /\ podsOf' = [podsOf EXCEPT ![i] = @ \ {a}]
                 /\ lateListed' = lateListed \ {a}
            ELSE /\ podsOf' = [podsOf EXCEPT ![i] = @ \cup {a}]
                 /\ lateListed' = lateListed \cup {a}
  /\ dirChanges' = dirChanges - 1
  /\ UNCHANGED << connectionCache, heap, dirUp, pc, loc, rng, ret,
                  calls, crashed, hcDirty, probed, creations, everFailed,
                  hcLoc >>

\* the cluster API becomes unreachable, or reachable again
DirToggle ==
  /\ Running
  /\ dirChanges > 0
  /\ dirUp' = ~dirUp
  /\ dirChanges' = dirChanges - 1
  /\ UNCHANGED << connectionCache, heap, podsOf, pc, loc, rng, ret,
                  calls, crashed, hcDirty, probed, creations, everFailed,
                  lateListed,
                  hcLoc >>

\* --------------------------------------------------------------- Connect
PoolSize(s) ==
  IF connectionCache[s] = NoPool THEN 0
  ELSE Len(heap[connectionCache[s]].grpcConnection)

Result(v, e, s) == [val |-> v, err |-> e, svc |-> s, size |-> PoolSize(s)]

\* a caller enters Connect(serviceName, namespace, f)
ConnectCall(c) ==
  /\ Running
  /\ pc[c] = "idle"
  /\ calls > 0
  /\ \E s \in ReqNames, n \in Namespaces :
       loc' = [loc EXCEPT ![c] = [NoLoc EXCEPT !.svc = s, !.ns = n, !.f = CapOf[c]]]
  /\ calls' = calls - 1
  /\ pc' = [pc EXCEPT ![c] = "L131"]
  /\ ret' = [ret EXCEPT ![c] = NoResult]
  /\ UNCHANGED << connectionCache, heap, dirUp, podsOf, dirChanges,
                  rng, crashed, hcDirty, probed, creations, everFailed,
                  lateListed,
                  hcLoc >>

\* a Connect that does not test for the pool and registers a fresh one on
\* every call
ConnectExistingRecreates(c) ==
  /\ Running
  /\ pc[c] = "L131"
  /\ connectionCache[loc[c].svc] # NoPool
  /\ heap' = Append(heap, [nConnections |-> 0, functions |-> loc[c].f,
                           grpcConnection |-> <<>>])
  /\ connectionCache' = [connectionCache EXCEPT ![loc[c].svc] = Len(heap) + 1]
  /\ ret' = [ret EXCEPT ![c] = Result([kind |-> "nil"], "nil", loc[c].svc)]
  /\ pc' = [pc EXCEPT ![c] = "idle"]
  /\ loc' = [loc EXCEPT ![c] = NoLoc]
  /\ UNCHANGED << dirUp, podsOf, dirChanges, rng, calls, crashed, hcDirty,
                  probed, creations, everFailed, lateListed,
                  hcLoc >>

\* lines 131-132 and 137: the pool exists already, Connect returns nil, nil
ConnectExisting(c) ==
  /\ Running
  /\ pc[c] = "L131"
  /\ connectionCache[loc[c].svc] # NoPool
  /\ ret' = [ret EXCEPT ![c] = Result([kind |-> "nil"], "nil", loc[c].svc)]
  /\ pc' = [pc EXCEPT ![c] = "idle"]
  /\ loc' = [loc EXCEPT ![c] = NoLoc]
  /\ UNCHANGED << connectionCache, heap, dirUp, podsOf, dirChanges,
                  rng, calls, crashed, hcDirty, probed, creations, everFailed,
                  lateListed,
                  hcLoc >>

\* lines 131-133: the pool is absent, Connect calls getConnectionPool
ConnectAbsent(c) ==
  /\ Running
  /\ pc[c] = "L131"
  /\ connectionCache[loc[c].svc] = NoPool
  /\ pc' = [pc EXCEPT ![c] = "L142"]
  /\ UNCHANGED << connectionCache, heap, dirUp, podsOf, dirChanges,
                  loc, rng, ret, calls, crashed, hcDirty, probed, creations,
                  everFailed, lateListed,
                  hcLoc >>

\* lines 142-143 and 153: getConnectionPool finds the pool another caller
\* has registered meanwhile and returns it as it is
GetPoolExisting(c) ==
  /\ Running
  /\ pc[c] = "L142"
  /\ connectionCache[loc[c].svc] # NoPool
  /\ loc' = [loc EXCEPT ![c].pool = connectionCache[loc[c].svc]]
  /\ pc' = [pc EXCEPT ![c] = "L134"]
  /\ UNCHANGED << connectionCache, heap, dirUp, podsOf, dirChanges,
                  rng, ret, calls, crashed, hcDirty, probed, creations,
                  everFailed, lateListed,
                  hcLoc >>

\* lines 142-143: getConnectionPool finds no pool and goes on to create one
GetPoolAbsent(c) ==
  /\ Running
  /\ pc[c] = "L142"
  /\ connectionCache[loc[c].svc] = NoPool
  /\ pc' = [pc EXCEPT ![c] = "L149"]
  /\ UNCHANGED << connectionCache, heap, dirUp, podsOf, dirChanges,
                  loc, rng, ret, calls, crashed, hcDirty, probed, creations,
                  everFailed, lateListed,
                  hcLoc >>

\* the connection object of lines 144-148
NewPool(f) == [nConnections |-> 0, functions |-> f, grpcConnection |-> <<>>]

\* where line 149 stores the new pool
Register(s, id) == [connectionCache EXCEPT ![s] = id]

\* lines 144-149: allocate an empty pool and store it in the map
GetPoolCreate(c) ==
  /\ Running
  /\ pc[c] = "L149"
  /\ heap' = Append(heap, NewPool(loc[c].f))
  /\ connectionCache' = Register(loc[c].svc, Len(heap) + 1)
  /\ creations' = [creations EXCEPT ![loc[c].svc] = @ + 1]
  /\ loc' = [loc EXCEPT ![c].creator = TRUE]
  /\ pc' = [pc EXCEPT ![c] = "L150"]
  /\ UNCHANGED <<  dirUp, podsOf, dirChanges, rng, ret, calls,
                  crashed, hcDirty, probed, everFailed, lateListed,
                  hcLoc >>

\* the positions at which a thread is reading, writing or ranging over the map
AtMap(t) == pc[t] \in {"L131", "L142", "L149", "L150", "L80", "L124"}

\* the goroutines in which the runtime can detect the race of c's write with
\* t's access: a lookup or a range detects it in its own goroutine
\* ("concurrent map read and map write", "concurrent map iteration and map
\* write"), of two writes either can ("concurrent map writes")
Detects(c, t) == IF pc[t] = "L149" THEN {c, t} ELSE {t}

\* line 149 while another goroutine is in a map access: the map is not safe
\* for concurrent use, the runtime may stop the process with a fatal error
GetPoolCreateRace(c) ==
  /\ Running
  /\ pc[c] = "L149"
  /\ \E t \in Threads \ {c} :
       /\ AtMap(t)
       /\ \E d \in Detects(c, t) : crashed' = Crash("concurrent map access", d)
  /\ UNCHANGED << connectionCache, heap, dirUp, podsOf, dirChanges,
                  pc, loc, rng, ret, calls, hcDirty, probed, creations,
                  everFailed, lateListed, hcLoc >>

\* line 150: read the map again; lines 151: call updateConnectionPool with it
GetPoolReread(c) ==
  /\ Running
  /\ pc[c] = "L150"
  /\ loc' = [loc EXCEPT ![c].pool = connectionCache[loc[c].svc]]
  /\ pc' = [pc EXCEPT ![c] = "L157"]
  /\ UNCHANGED << connectionCache, heap, dirUp, podsOf, dirChanges,
                  rng, ret, calls, crashed, hcDirty, probed, creations,
                  everFailed, lateListed,
                  hcLoc >>

\* ---------------------------------------------------- updateConnectionPool
\* the goroutine continues after updateConnectionPool returns: a caller goes
\* on to the selection of line 134, updatePool to its next map entry
AfterPopulate(t) == IF t \in Callers THEN "L134" ELSE "L124"

\* line 159 and line 183: with no pod left updateConnectionPool returns
LoopHead(t, pods) == IF pods = <<>> THEN AfterPopulate(t) ELSE "L159"

\* lines 157-158 when the cluster API does not answer: getService calls
\* log.Fatal, which ends the process
ResolveFatal(t) ==
  /\ Running
  /\ pc[t] = "L157"
  /\ ~dirUp
  /\ crashed' = Crash("log.Fatal in getService", t)
  /\ UNCHANGED << connectionCache, heap, dirUp, podsOf, dirChanges,
                  pc, loc, rng, ret, calls, hcDirty, probed, creations,
                  everFailed, lateListed,
                  hcLoc >>

\* lines 157-158 when no service matches: getService returns nil and an
\* error, the error is dropped, getPodsForSvc dereferences the nil service
ResolveNotFound(t) ==
  /\ Running
  /\ pc[t] = "L157"
  /\ dirUp
  /\ getService(loc[t].svc) = 0
  /\ crashed' = Crash("nil dereference in getPodsForSvc", t)
  /\ UNCHANGED << connectionCache, heap, dirUp, podsOf, dirChanges,
                  pc, loc, rng, ret, calls, hcDirty, probed, creations,
                  everFailed, lateListed,
                  hcLoc >>

\* lines 157-158: the service is found and its pods are listed, in any
\* order; a failed pod listing (error dropped) leaves an empty list
Resolve(t) ==
  /\ Running
  /\ pc[t] = "L157"
  /\ dirUp
  /\ getService(loc[t].svc) # 0
  /\ \E listOk \in BOOLEAN :
       LET q == Listing(IF listOk THEN podsOf[getService(loc[t].svc)] ELSE {})
       IN /\ loc' = [loc EXCEPT ![t].pods = q,
                                ![t].listed = {q[i] : i \in 1..Len(q)},
                                ![t].failed = {}]
          /\ pc' = [pc EXCEPT ![t] = LoopHead(t, q)]
  /\ UNCHANGED << connectionCache, heap, dirUp, podsOf, dirChanges,
                  rng, ret, calls, crashed, hcDirty, probed, creations,
                  everFailed, lateListed,
                  hcLoc >>

\* lines 161-166: the scan of the pool for the pod's address. Its continue
\* statement continues the inner loop, so the scan decides nothing: the
\* pod is dialled whether or not its address is in the pool already.
SkipPod(slice, ip) == FALSE

\* lines 167-172: grpc.Dial, whose error is overwritten by the next line,
\* then NewGrpcClient, whose error alone decides whether the pod is skipped
KeepPod(dialOk, clientOk) == clientOk

\* lines 174-179; id stands for the address of the new object: a goroutine
\* makes at most one connection per service and pod address
NewConn(id, ip, ns, s, f, dialOk) ==
  [id |-> id, connectionIP |-> ip, namespace |-> ns, serviceName |-> s,
   grpcConnection |-> [by |-> f, addr |-> ip, dialed |-> dialOk]]

\* lines 159-172 for the next pod: the pod is skipped
PopulateSkip(t) ==
  /\ Running
  /\ pc[t] = "L159"
  /\ loc[t].pods # <<>>
  /\ LET ip == Head(loc[t].pods)
         pool == heap[loc[t].pool]
     IN /\ SkipPod(pool.grpcConnection, ip) \/ ~KeepPod(DialOk(ip), ClientOk(ip))
        /\ loc' = [loc EXCEPT ![t].pods = Tail(@),
                              ![t].failed = IF SkipPod(pool.grpcConnection, ip)
                                            THEN @ ELSE @ \cup {ip}]
        /\ everFailed' = IF SkipPod(pool.grpcConnection, ip)
                         THEN everFailed ELSE everFailed \cup {ip}
  /\ pc' = [pc EXCEPT ![t] = LoopHead(t, Tail(loc[t].pods))]
  /\ UNCHANGED << connectionCache, heap, dirUp, podsOf, dirChanges,
                  rng, ret, calls, crashed, hcDirty, probed, creations,
                  lateListed,
                  hcLoc >>

\* lines 159-180 for the next pod: a client is made and wrapped in a new
\* grpcConnection object, and currentCache.nConnections is read
PopulateDial(t) ==
  /\ Running
  /\ pc[t] = "L159"
  /\ loc[t].pods # <<>>
  /\ LET ip == Head(loc[t].pods)
         pool == heap[loc[t].pool]
     IN /\ ~SkipPod(pool.grpcConnection, ip)
        /\ KeepPod(DialOk(ip), ClientOk(ip))
        /\ loc' = [loc EXCEPT
                     ![t].gc = NewConn(<<t, loc[t].svc, ip>>, ip, loc[t].ns,
                                       loc[t].svc, pool.functions, DialOk(ip)),
                     ![t].failed = IF DialOk(ip) THEN @ ELSE @ \cup {ip},
                     ![t].tmpN = pool.nConnections]
  /\ pc' = [pc EXCEPT ![t] = "L180w"]
  /\ UNCHANGED << connectionCache, heap, dirUp, podsOf, dirChanges, rng, ret,
                  calls, crashed, hcDirty, probed, creations, everFailed,
                  lateListed,
                  hcLoc >>

\* line 180, the write of currentCache.nConnections
PopulateCountWrite(t) ==
  /\ Running
  /\ pc[t] = "L180w"
  /\ heap' = [heap EXCEPT ![loc[t].pool].nConnections = loc[t].tmpN + 1]
  /\ loc' = [loc EXCEPT ![t].tmpN = 0]
  /\ pc' = [pc EXCEPT ![t] = "L181r"]
  /\ UNCHANGED << connectionCache,  dirUp, podsOf, dirChanges, rng,
                  ret, calls, crashed, hcDirty, probed, creations, everFailed,
                  lateListed,
                  hcLoc >>

\* line 181, the read of currentCache.grpcConnection
PopulateAppendRead(t) ==
  /\ Running
  /\ pc[t] = "L181r"
  /\ loc' = [loc EXCEPT ![t].tmpSlice = heap[loc[t].pool].grpcConnection]
  /\ pc' = [pc EXCEPT ![t] = "L181w"]
  /\ UNCHANGED << connectionCache, heap, dirUp, podsOf, dirChanges,
                  rng, ret, calls, crashed, hcDirty, probed, creations,
                  everFailed, lateListed,
                  hcLoc >>

\* line 181, the write of currentCache.grpcConnection, and line 159
PopulateAppendWrite(t) ==
  /\ Running
  /\ pc[t] = "L181w"
  /\ heap' = [heap EXCEPT ![loc[t].pool].grpcConnection =
                             Append(loc[t].tmpSlice, loc[t].gc)]
  /\ loc' = [loc EXCEPT ![t].tmpSlice = <<>>, ![t].gc = NoConn,
                        ![t].pods = Tail(@)]
  /\ pc' = [pc EXCEPT ![t] = LoopHead(t, Tail(loc[t].pods))]
  /\ UNCHANGED << connectionCache,  dirUp, podsOf, dirChanges, rng,
                  ret, calls, crashed, hcDirty, probed, creations, everFailed,
                  lateListed,
                  hcLoc >>

\* ------------------------------------------------------ Connect, line 134
\* conn.grpcConnection[rand.Int31n(conn.nConnections)]: the language leaves
\* open whether the slice is read before or after the call of rand.Int31n,
\* so both orders are modelled.

\* the values rand.Int31n(n) may return; it panics when n <= 0
Int31n(n) == 0..(n - 1)

\* the index expression slice[i], i counted from 0
InRange(slice, i) == i >= 0 /\ i < Len(slice)

\* the count is read first: rand.Int31n panics on a count of zero
SelectCountFirstPanic(c) ==
  /\ Running
  /\ pc[c] = "L134"
  /\ heap[loc[c].pool].nConnections <= 0
  /\ crashed' = Crash("panic in rand.Int31n", c)
  /\ UNCHANGED << connectionCache, heap, dirUp, podsOf, dirChanges,
                  pc, loc, rng, ret, calls, hcDirty, probed, creations,
                  everFailed, lateListed,
                  hcLoc >>

\* the count is read first and the index drawn
SelectCountFirst(c) ==
  /\ Running
  /\ pc[c] = "L134"
  /\ \E i \in Int31n(heap[loc[c].pool].nConnections) :
       loc' = [loc EXCEPT ![c].idx = i]
  /\ pc' = [pc EXCEPT ![c] = "L134i"]
  /\ UNCHANGED << connectionCache, heap, dirUp, podsOf, dirChanges,
                  rng, ret, calls, crashed, hcDirty, probed, creations,
                  everFailed, lateListed,
                  hcLoc >>

\* the slice is read first
SelectSliceFirst(c) ==
  /\ Running
  /\ pc[c] = "L134"
  /\ loc' = [loc EXCEPT ![c].tmpSlice = heap[loc[c].pool].grpcConnection]
  /\ pc' = [pc EXCEPT ![c] = "L134n"]
  /\ UNCHANGED << connectionCache, heap, dirUp, podsOf, dirChanges,
                  rng, ret, calls, crashed, hcDirty, probed, creations,
                  everFailed, lateListed,
                  hcLoc >>

\* the slice was read first, rand.Int31n panics on a count of zero
SelectCountSecondPanic(c) ==
  /\ Running
  /\ pc[c] = "L134n"
  /\ heap[loc[c].pool].nConnections <= 0
  /\ crashed' = Crash("panic in rand.Int31n", c)
  /\ UNCHANGED << connectionCache, heap, dirUp, podsOf, dirChanges,
                  pc, loc, rng, ret, calls, hcDirty, probed, creations,
                  everFailed, lateListed,
                  hcLoc >>

\* the slice was read first, the index is drawn now
SelectCountSecond(c) ==
  /\ Running
  /\ pc[c] = "L134n"
  /\ \E i \in Int31n(heap[loc[c].pool].nConnections) :
       loc' = [loc EXCEPT ![c].idx = i]
  /\ pc' = [pc EXCEPT ![c] = "L134x"]
  /\ UNCHANGED << connectionCache, heap, dirUp, podsOf, dirChanges,
                  rng, ret, calls, crashed, hcDirty, probed, creations,
                  everFailed, lateListed,
                  hcLoc >>

\* the slice the index expression is applied to
Indexed(c) ==
  IF pc[c] = "L134x" THEN loc[c].tmpSlice ELSE heap[loc[c].pool].grpcConnection

\* the index is outside the slice: the index expression panics
SelectOutOfRange(c) ==
  /\ Running
  /\ pc[c] \in {"L134i", "L134x"}
  /\ ~InRange(Indexed(c), loc[c].idx)
  /\ crashed' = Crash("index out of range in Connect", c)
  /\ UNCHANGED << connectionCache, heap, dirUp, podsOf, dirChanges,
                  pc, loc, rng, ret, calls, hcDirty, probed, creations,
                  everFailed, lateListed,
                  hcLoc >>

\* lines 134-135: Connect returns the selected grpcConnection object
SelectReturn(c) ==
  /\ Running
  /\ pc[c] \in {"L134i", "L134x"}
  /\ InRange(Indexed(c), loc[c].idx)
  /\ ret' = [ret EXCEPT ![c] =
               Result([kind |-> "record", conn |-> Indexed(c)[loc[c].idx + 1]],
                      "nil", loc[c].svc)]
  /\ pc' = [pc EXCEPT ![c] = "idle"]
  /\ loc' = [loc EXCEPT ![c] = NoLoc]
  /\ UNCHANGED << connectionCache, heap, dirUp, podsOf, dirChanges,
                  rng, calls, crashed, hcDirty, probed, creations, everFailed,
                  lateListed,
                  hcLoc >>

\* the slice header is read while another goroutine is storing a new header
\* into the same pool (line 181): the read is not atomic, so it may pair the
\* new length with the old array and yield memory that is no pool entry
SelectTorn(c) ==
  /\ Running
  /\ pc[c] = "L134i"
  /\ \E t \in PopThreads \ {c} : pc[t] = "L181w" /\ loc[t].pool = loc[c].pool
  /\ InRange(Append(heap[loc[c].pool].grpcConnection, NoConn), loc[c].idx)
  /\ ret' = [ret EXCEPT ![c] = Result([kind |-> "garbage"], "nil", loc[c].svc)]
  /\ pc' = [pc EXCEPT ![c] = "idle"]
  /\ loc' = [loc EXCEPT ![c] = NoLoc]
  /\ UNCHANGED << connectionCache, heap, dirUp, podsOf, dirChanges,
                  rng, calls, crashed, hcDirty, probed, creations, everFailed,
                  lateListed,
                  hcLoc >>

\* ------------------------------------------------------------ updatePool
\* range over the map: an entry is produced once; an entry created during
\* the iteration is produced or skipped
RangeNext(t) == Registered \ rng[t].visited
RangeMayEnd(t) == rng[t].start \subseteq rng[t].visited

\* line 123: the sleep ends, the range over connectionCache begins
UpdatePoolStart ==
  /\ Running
  /\ pc["up"] = "sleep"
  /\ rng' = [rng EXCEPT !["up"] = [start |-> Registered, visited |-> {}]]
  /\ pc' = [pc EXCEPT !["up"] = "L124"]
  /\ UNCHANGED << connectionCache, heap, dirUp, podsOf, dirChanges,
                  loc, ret, calls, crashed, hcDirty, probed, creations,
                  everFailed, lateListed,
                  hcLoc >>

\* lines 124-125: the next entry, and the arguments of updateConnectionPool
UpdatePoolVisit ==
  /\ Running
  /\ pc["up"] = "L124"
  /\ \E k \in RangeNext("up") :
       LET v == heap[connectionCache[k]]
       IN /\ InRange(v.grpcConnection, 0)
          /\ loc' = [loc EXCEPT !["up"] =
                       [NoLoc EXCEPT !.svc = k,
                                     !.ns = v.grpcConnection[1].namespace,
                                     !.f = v.functions,
                                     !.pool = connectionCache[k]]]
          /\ rng' = [rng EXCEPT !["up"].visited = @ \cup {k}]
  /\ pc' = [pc EXCEPT !["up"] = "L157"]
  /\ UNCHANGED << connectionCache, heap, dirUp, podsOf, dirChanges,
                  ret, calls, crashed, hcDirty, probed, creations, everFailed,
                  lateListed,
                  hcLoc >>

\* line 125 on a pool without connections: v.grpcConnection[0] panics
UpdatePoolEmpty ==
  /\ Running
  /\ pc["up"] = "L124"
  /\ \E k \in RangeNext("up") :
       ~InRange(heap[connectionCache[k]].grpcConnection, 0)
  /\ crashed' = Crash("index out of range in updatePool", "up")
  /\ UNCHANGED << connectionCache, heap, dirUp, podsOf, dirChanges,
                  pc, loc, rng, ret, calls, hcDirty, probed, creations,
                  everFailed, lateListed,
                  hcLoc >>

\* lines 124-127: the range is over, updatePool returns and its goroutine ends
UpdatePoolEnd ==
  /\ Running
  /\ pc["up"] = "L124"
  /\ RangeMayEnd("up")
  /\ pc' = [pc EXCEPT !["up"] = "done"]
  /\ loc' = [loc EXCEPT !["up"] = NoLoc]
  /\ UNCHANGED << connectionCache, heap, dirUp, podsOf, dirChanges,
                  rng, ret, calls, crashed, hcDirty, probed, creations,
                  everFailed, lateListed,
                  hcLoc >>

\* ----------------------------------------------------------- healthCheck
\* line 76-80: the sleep ends, the channel is made (unbuffered, no receiver
\* yet), the range over connectionCache begins
HealthCheckStart ==
  /\ Running
  /\ pc["hc"] = "sleep"
  /\ rng' = [rng EXCEPT !["hc"] = [start |-> Registered, visited |-> {}]]
  /\ pc' = [pc EXCEPT !["hc"] = "L80"]
  /\ UNCHANGED << connectionCache, heap, dirUp, podsOf, dirChanges,
                  loc, ret, calls, crashed, hcDirty, probed, creations,
                  everFailed, lateListed,
                  hcLoc >>

\* line 82 after an entry: the next entry, or line 80 when the slice the
\* inner loop ranges over is exhausted
InnerLoop(slice, idx) == IF idx > Len(slice) THEN "L80" ELSE "L82"

\* lines 80-82: the next entry of the map; the range expression
\* v.grpcConnection is evaluated once, before the first iteration
HealthCheckPool ==
  /\ Running
  /\ pc["hc"] = "L80"
  /\ \E k \in RangeNext("hc") :
       LET slice == heap[connectionCache[k]].grpcConnection
       IN /\ hcLoc' = IF slice = <<>> THEN NoHcLoc
                       ELSE [pool |-> connectionCache[k], slice |-> slice,
                             idx |-> 1]
          /\ rng' = [rng EXCEPT !["hc"].visited = @ \cup {k}]
          /\ pc' = [pc EXCEPT !["hc"] = InnerLoop(slice, 1)]
  /\ UNCHANGED << connectionCache, heap, dirUp, podsOf, dirChanges,
                  loc, ret, calls, crashed, hcDirty, probed, creations,
                  everFailed, lateListed >>

\* lines 82-84 and 87-88 for one connection: its ping succeeds
HealthCheckPing ==
  /\ Running
  /\ pc["hc"] = "L82"
  /\ probed' = probed \cup {hcLoc.slice[hcLoc.idx].id}
  /\ hcLoc' = IF hcLoc.idx + 1 > Len(hcLoc.slice) THEN NoHcLoc
              ELSE [hcLoc EXCEPT !.idx = @ + 1]
  /\ pc' = [pc EXCEPT !["hc"] = InnerLoop(hcLoc.slice, hcLoc.idx + 1)]
  /\ UNCHANGED << connectionCache, heap, dirUp, podsOf, dirChanges,
                  loc, rng, ret, calls, crashed, hcDirty, creations,
                  everFailed, lateListed >>

\* a health check that acts on a failed ping in place: it takes the entry
\* out of the pool it is iterating before it sends it
HealthCheckSendEvicts ==
  /\ Running
  /\ pc["hc"] = "L82"
  /\ probed' = probed \cup {hcLoc.slice[hcLoc.idx].id}
  /\ hcDirty' = hcLoc.slice[hcLoc.idx].id
  /\ heap' = [heap EXCEPT
                ![hcLoc.pool].grpcConnection =
                   SelectSeq(@, LAMBDA e : e.id # hcLoc.slice[hcLoc.idx].id),
                ![hcLoc.pool].nConnections = @ - 1]
  /\ pc' = [pc EXCEPT !["hc"] = "L86"]
  /\ UNCHANGED << connectionCache, dirUp, podsOf, dirChanges, loc, rng, ret,
                  calls, crashed, creations, everFailed, lateListed,
                  hcLoc >>

\* lines 82-86 for one connection: its ping fails and the connection is sent
\* on the channel, which has no receiver, so the goroutine stays in the send
HealthCheckSend ==
  /\ Running
  /\ pc["hc"] = "L82"
  /\ probed' = probed \cup {hcLoc.slice[hcLoc.idx].id}
  /\ hcDirty' = hcLoc.slice[hcLoc.idx].id
  /\ pc' = [pc EXCEPT !["hc"] = "L86"]
  /\ UNCHANGED << connectionCache, heap, dirUp, podsOf, dirChanges,
                  loc, rng, ret, calls, crashed, creations, everFailed,
                  lateListed, hcLoc >>

\* lines 91-92: no ping failed; the channel is closed and cleanConnections
\* is started on it; healthCheck returns and its goroutine ends
HealthCheckEnd ==
  /\ Running
  /\ pc["hc"] = "L80"
  /\ RangeMayEnd("hc")
  /\ pc' = [pc EXCEPT !["hc"] = "done", !["cc"] = "L99"]
  /\ UNCHANGED << connectionCache, heap, dirUp, podsOf, dirChanges,
                  loc, rng, ret, calls, crashed, hcDirty, probed, creations,
                  everFailed, lateListed,
                  hcLoc >>

\* ------------------------------------------------------ cleanConnections
\* what the goroutine receives from the channel: healthCheck closes the
\* channel only if it has sent nothing, and starts the receiver only then
Received == <<>>

\* the services of the connections received, the keys of updateList
UpdateList(received) == {received[i].serviceName : i \in 1..Len(received)}

\* lines 96-119: the channel is closed and empty, both loops end at once
CleanConnections ==
  /\ Running
  /\ pc["cc"] = "L99"
  /\ UpdateList(Received) = {}
  /\ pc' = [pc EXCEPT !["cc"] = "done"]
  /\ UNCHANGED << connectionCache, heap, dirUp, podsOf, dirChanges,
                  loc, rng, ret, calls, crashed, hcDirty, probed, creations,
                  everFailed, lateListed,
                  hcLoc >>

\* ------------------------------------------------------------------ Next
CallerStep(c) ==
  \/ ConnectExisting(c)
  \/ ConnectAbsent(c)
  \/ GetPoolExisting(c)
  \/ GetPoolAbsent(c)
  \/ GetPoolCreate(c)
  \/ GetPoolCreateRace(c)
  \/ GetPoolReread(c)
  \/ SelectCountFirstPanic(c)
  \/ SelectCountFirst(c)
  \/ SelectSliceFirst(c)
  \/ SelectCountSecondPanic(c)
  \/ SelectCountSecond(c)
  \/ SelectOutOfRange(c)
  \/ SelectReturn(c)
  \/ SelectTorn(c)

PopulateStep(t) ==
  \/ ResolveFatal(t)
  \/ ResolveNotFound(t)
  \/ Resolve(t)
  \/ PopulateSkip(t)
  \/ PopulateDial(t)
  \/ PopulateCountWrite(t)
  \/ PopulateAppendRead(t)
  \/ PopulateAppendWrite(t)

UpdatePoolStep ==
  \/ UpdatePoolStart
  \/ UpdatePoolVisit
  \/ UpdatePoolEmpty
  \/ UpdatePoolEnd

HealthCheckStep ==
  \/ HealthCheckStart
  \/ HealthCheckPool
  \/ HealthCheckPing
  \/ HealthCheckSend
  \/ HealthCheckEnd

Next ==
  \/ DirChange
  \/ DirToggle
  \/ \E c \in Callers : ConnectCall(c)
  \/ \E c \in Callers : CallerStep(c)
  \/ \E t \in PopThreads : PopulateStep(t)
  \/ UpdatePoolStep
  \/ HealthCheckStep
  \/ CleanConnections

Spec == Init /\ [][Next]_vars

\* the goroutines are scheduled fairly; nothing obliges a caller to call
\* Connect nor the directory to change
FairSpec ==
  /\ Spec
  /\ \A c \in Callers : WF_vars(CallerStep(c))
  /\ \A t \in PopThreads : WF_vars(PopulateStep(t))
  /\ WF_vars(UpdatePoolStep)
  /\ WF_vars(HealthCheckStep)
  /\ WF_vars(CleanConnections)

\* ================================================================ claims
Pools == {connectionCache[k] : k \in Registered}
Slice(p) == heap[p].grpcConnection
Members == UNION {Ids(Slice(p)) : p \in Pools}
Healthy == {a \in Addrs : DialOk(a) /\ ClientOk(a)}

\* C1: in every reachable state the connection collection of every
\* registered pool holds no two entries with the same address.
C1_UniqueAddresses ==
  \A p \in Pools : \A i, j \in 1..Len(Slice(p)) :
    Slice(p)[i].connectionIP = Slice(p)[j].connectionIP => i = j

\* updatePool's full scan is inside updateConnectionPool on pool p
FullScanOn(p) ==
  pc["up"] \in {"L159", "L180w", "L181r", "L181w"} /\ loc["up"].pool = p

\* C2: while the full scan is re-populating the pool a Connect call selects
\* from, the index Connect draws is within the collection it indexes: the
\* index expression of line 134 does not panic.
C2_SelectionInBounds ==
  \A c \in Callers :
    (pc[c] \in {"L134i", "L134x"} /\ FullScanOn(loc[c].pool))
      => crashed # Crash("index out of range in Connect", c)

\* C3: a Connect call for a service whose pool holds at least one connection
\* returns a member of the pool and a nil error, never (nil, nil).
C3_AlwaysSelects ==
  \A c \in Callers :
    (ret[c] # NoResult /\ ret[c].size >= 1)
      => (ret[c].val.kind = "record" /\ ret[c].err = "nil")

\* C4: Connect on a pool that has no connection after getConnectionPool
\* returns an error value and does not panic.
C4_EmptyPoolNoPanic ==
  \A c \in Callers :
    (pc[c] \in {"L134", "L134n"} /\ Slice(loc[c].pool) = <<>>)
      => crashed # Crash("panic in rand.Int31n", c)

\* C5: over the whole execution at most one pool is created and registered
\* for each service name.
C5_SingleCreator == \A k \in ReqNames : creations[k] <= 1

\* C6: a connection whose ping failed is eventually no member of a pool any
\* more (unless the process has ended).
C6_DeadEvicted ==
  (hcDirty # NoConn) ~> (hcDirty \notin Members \/ ~Running)

\* C7: when the caller that created a pool has finished its initial
\* populate, with fewer failures than pods listed, the pool holds exactly
\* one connection for each address listed that did not fail and none for
\* an address whose dial or client construction failed.
C7_PartialFailure ==
  \A c \in Callers :
    (/\ pc[c] = "L134"
     /\ loc[c].creator
     /\ Cardinality(loc[c].failed) < Cardinality(loc[c].listed))
      => /\ IPs(Slice(loc[c].pool)) = loc[c].listed \ loc[c].failed
         /\ Len(Slice(loc[c].pool)) = Cardinality(loc[c].listed \ loc[c].failed)

\* a registered service has a healthy pod, listed after the start, whose
\* address is not in the service's pool
LatePending ==
  \E k \in Registered :
    /\ getService(k) # 0
    /\ (lateListed \cap podsOf[getService(k)] \cap Healthy)
         \ IPs(Slice(connectionCache[k])) # {}

\* C8: a healthy address the directory started listing later for a
\* registered service is eventually in that service's pool (unless a ping
\* has failed or the process has ended).
C8_FullScanRecurs ==
  LatePending ~> (~LatePending \/ hcDirty # NoConn \/ ~Running)

\* the members of registered pools that have never been pinged
Unprobed == Members \ probed

\* C9: every connection that is a member of a registered pool is eventually
\* pinged (unless it leaves the pool, the health check is stuck sending a
\* dead connection, or the process has ended).
C9_HealthCheckRecurs ==
  (Unprobed # {}) ~> (Unprobed = {} \/ hcDirty # NoConn \/ ~Running)

\* C10: a directory lookup that fails during the initial populate of a
\* Connect call is returned to the caller as an error: the process does not
\* end in that call.
C10_DirectoryErrorReturned ==
  \A c \in Callers :
    /\ crashed # Crash("log.Fatal in getService", c)
    /\ crashed # Crash("nil dereference in getPodsForSvc", c)

\* C11: a directory error met by the full scan never ends the process: the
\* background goroutine neither exits through log.Fatal nor panics on the
\* service it could not look up.
C11_BackgroundSurvivesDirectoryError ==
  /\ crashed # Crash("log.Fatal in getService", "up")
  /\ crashed # Crash("nil dereference in getPodsForSvc", "up")

\* C12: a Connect call with an empty serviceName returns at once: no pool is
\* created or registered under the empty name and the directory is not
\* asked about it.
C12_EmptyNameRejected ==
  /\ connectionCache[<<>>] = NoPool
  /\ creations[<<>>] = 0
  /\ \A c \in Callers : (pc[c] # "idle" /\ loc[c].svc = <<>>) => pc[c] # "L157"

\* caller c is inside a Connect call that has created no pool and is not
\* about to, for a service whose pool is registered
OnExistingPool(c) ==
  /\ pc[c] \notin {"idle", "L149"}
  /\ ~loc[c].creator
  /\ connectionCache[loc[c].svc] # NoPool

\* C13: no step of a Connect call for a service whose pool already exists
\* changes the registry mapping, a pool's collection or a pool's count.
C13_ExistingPoolUntouched ==
  [][\A c \in Callers :
       (OnExistingPool(c) /\ (pc'[c] # pc[c] \/ crashed'.by = c))
         => (connectionCache' = connectionCache /\ heap' = heap)]_vars

\* a Connect call has returned for a service whose pool held a connection
\* without having created a pool
C13_Witness ==
  \E c \in Callers :
    /\ pc[c] = "idle"
    /\ ret[c].val.kind = "nil"
    /\ ret[c].size >= 1
    /\ creations[ret[c].svc] >= 1

\* C14: a successful Connect hands the caller the client handle built by the
\* capability for the selected connection, never the connection record.
C14_ReturnsHandle ==
  \A c \in Callers :
    (ret[c].err = "nil" /\ ret[c].val.kind \notin {"none", "nil"})
      => ret[c].val.kind = "handle"

\* C16: whenever the health check is in the send of a dead connection, the
\* receiver of the channel (cleanConnections) has been started, so the send
\* can complete and the cycle can run to its end.
C16_SendHasReceiver ==
  pc["hc"] = "L86" => pc["cc"] # "unstarted"

\* C17: no step of healthCheck, from the end of its sleep to the start of
\* cleanConnections, changes the registry mapping, a pool's collection or a
\* pool's count, whether the pings succeed or fail.
C17_ProbingReadOnly ==
  [][(pc'["hc"] # pc["hc"] \/ rng'["hc"] # rng["hc"] \/ hcLoc' # hcLoc
        \/ crashed'.by = "hc")
       => (connectionCache' = connectionCache /\ heap' = heap)]_vars

\* a ping has failed and the health check is sending the dead connection,
\* which is in its pool still
C17_Witness ==
  /\ pc["hc"] = "L86"
  /\ \E p \in Pools : \E i \in 1..Len(Slice(p)) : Slice(p)[i].id = hcDirty

\* C18: neither the full scan nor the backfill of the eviction ends in an
\* out-of-range access on a pool it visits, a pool without connections
\* included.
C18_EmptyPoolVisited ==
  /\ crashed # Crash("index out of range in updatePool", "up")
  /\ crashed # Crash("index out of range in cleanConnections", "cc")

\* C19: once a pool is registered under a service name, the pool registered
\* under that name carries the same capability in every later state.
C19_CapabilityFixed ==
  [][\A k \in Registered :
       /\ connectionCache'[k] # NoPool
       /\ heap'[connectionCache'[k]].functions
            = heap[connectionCache[k]].functions]_vars

\* no goroutine is inside updateConnectionPool on pool p, nor inside the
\* receiving loop of cleanConnections
Quiescent(p) ==
  /\ \A t \in PopThreads :
       pc[t] \in {"L157", "L159", "L180w", "L181r", "L181w"} => loc[t].pool # p
  /\ pc["cc"] # "L99"

\* C20: whenever no populate and no eviction is at work on a pool, the
\* pool's nConnections equals the number of entries of its collection.
C20_CountMatchesLength ==
  \A p \in 1..Len(heap) :
    Quiescent(p) => heap[p].nConnections = Len(heap[p].grpcConnection)

====
